---- MODULE Spec2Model ----
(***************************************************************************)
(* Payment lifecycle and webhook reconciliation of EduHealth               *)
(* (src/app.py, src/paystack_integration.py).                              *)
(*                                                                         *)
(* State: the users' subscription columns, the payment_transactions table, *)
(* the upstream gateway's view of every reference, the clock, and the      *)
(* HTTP response on its way to the client.                                 *)
(* Each request handler is one action; the gateway, the clock and the      *)
(* client taking its response are the environment.  Requests are served    *)
(* one at a time.                                                          *)
(***************************************************************************)
EXTENDS Integers, Sequences, FiniteSets, TLC

VARIABLES
    configured,   \* module-level `paystack` client is not None (app.py:34-38)
    now,          \* wall clock, in seconds, read at instants TickLength apart
    users,        \* users table: id -> subscription columns
    txns,         \* payment_transactions table, rows in insertion order
    gw,           \* the gateway's transactions: reference -> record
    response      \* the response in flight, NoResponse once the client took it

vars == <<configured, now, users, txns, gw, response>>

(***************************************************************************)
(* Bounds                                                                  *)
(***************************************************************************)
MaxNow == 1       \* the clock is read at instants 0..MaxNow
MaxTxns == 1      \* rows the payment_transactions table may hold

(***************************************************************************)
(* Values                                                                  *)
(***************************************************************************)
None == "None"
NULL == << >>                     \* a NULL DateTime column
NoRef == << >>                    \* no reference given
NoSignature == << >>              \* no X-Paystack-Signature header

Users == {"u1", "u2"}

email(u) == IF u = "u1" THEN "a@x.com" ELSE "b@x.com"

UnknownEmail == "nobody@x.com"

\* User.query.filter_by(email=...).first(); email is a unique column
UserByEmail(e) == IF \E u \in Users : email(u) = e
                  THEN CHOOSE u \in Users : email(u) = e
                  ELSE None

\* plan_type values a client may post: the body is the client's, any string
\* can be sent; Absent is a body without the key
Absent == "absent"
PlanInputs == {"monthly", "annual", "lifetime", Absent}

\* data.get('plan_type', 'monthly')
PlanOrDefault(p) == IF p = Absent THEN "monthly" ELSE p

\* hash(email) % 10000
EmailHash(e) == CASE e = "a@x.com" -> 1111
                  [] e = "b@x.com" -> 2222
                  [] OTHER -> 3333

\* f"eduhealth_{datetime.now().strftime('%Y%m%d%H%M%S')}_{hash(email) % 10000}"
Reference(stamp, e) == <<stamp, EmailHash(e)>>

\* a reference of the gateway account that no initialize call of this system made
ForeignRef == <<0, 0>>

\* a variant of timedelta that adds nothing
timedeltaNone(d) == 0

\* timedelta(days=d), in seconds
timedelta(d) == d * 86400

\* amount = 99.99 if plan_type == 'annual' else 9.99   (in cents)
PlanAmount(p) == IF p = "annual" THEN 9999 ELSE 999

\* amount_zar = amount * 18; amount_cents = int(amount_zar * 100)
AmountCents(amount) == amount * 18


(***************************************************************************)
(* Requests and responses                                                  *)
(***************************************************************************)
OtherEvent == "subscription.create"
Events == {"charge.success", "charge.failed", OtherEvent}

\* the raw bytes of a webhook body: a JSON value in one byte layout
Raw(event, reference, e, amount, plan, fmt) ==
    [event |-> event, reference |-> reference, email |-> e, amount |-> amount,
     plan_type |-> plan, fmt |-> fmt]

\* request.get_json(): the JSON value of the bytes, layout forgotten
get_json(raw) ==
    [event |-> raw.event, reference |-> raw.reference, email |-> raw.email,
     amount |-> raw.amount, plan_type |-> raw.plan_type]

\* json.dumps(webhook_data, separators=(',', ':')).encode('utf-8')
json_dumps(data) ==
    Raw(data.event, data.reference, data.email, data.amount, data.plan_type,
        "compact")

Resp(handler, code, body) == [handler |-> handler, code |-> code, body |-> body]

NoResponse == Resp(None, 0, None)

Respond(handler, code, body) == response' = Resp(handler, code, body)

(***************************************************************************)
(* Persistence                                                             *)
(***************************************************************************)
\* a variant of PaymentTransaction that records every row as completed
PaymentTransactionCompleted(user_id, reference, amount, plan, status) ==
    [user_id |-> user_id, paystack_reference |-> reference, amount |-> amount,
     currency |-> "USD", status |-> "completed", plan_type |-> plan]

\* PaymentTransaction(...): currency is left to the column default 'USD'
PaymentTransaction(user_id, reference, amount, plan, status) ==
    [user_id |-> user_id, paystack_reference |-> reference, amount |-> amount,
     currency |-> "USD", status |-> status, plan_type |-> plan]

\* PaymentTransaction.query.filter_by(paystack_reference=reference).first():
\* the index of the first matching row, 0 for None
FirstByReference(reference) ==
    LET I == {i \in 1..Len(txns) : txns[i].paystack_reference = reference}
    IN  IF I = {} THEN 0 ELSE CHOOSE i \in I : \A j \in I : i <= j

\* a variant of the lookup without the user_id filter
FirstByReferenceAnyUser(reference, u) == FirstByReference(reference)

\* filter_by(paystack_reference=reference, user_id=current_user.id).first()
FirstByReferenceAndUser(reference, u) ==
    LET I == {i \in 1..Len(txns) : /\ txns[i].paystack_reference = reference
                                   /\ txns[i].user_id = u}
    IN  IF I = {} THEN 0 ELSE CHOOSE i \in I : \A j \in I : i <= j

\* a table without the unique constraint
NoConstraint(rows) == TRUE

\* paystack_reference = db.Column(db.String(100), unique=True, nullable=False)
UniqueReference(rows) ==
    /\ \A i, j \in 1..Len(rows) :
          rows[i].paystack_reference = rows[j].paystack_reference => i = j
    /\ \A i \in 1..Len(rows) : rows[i].paystack_reference # NoRef

\* db.session.commit() of the rows: it raises when the storage fails or a
\* constraint is violated, and then nothing of the session is persisted
CommitRaises(rows, db) == db = "fail" \/ ~UniqueReference(rows)

\* a variant that grants every plan the monthly duration
SubscriptionDaysMonthly(plan) == 30

\* days=365 if payment.plan_type == 'annual' else 30
SubscriptionDays(plan) == IF plan = "annual" THEN 365 ELSE 30

\* a variant of Activate in which the user's columns are not written
ActivateDropped(u, plan) == users

\* a variant of Activate that extends an expiry already set instead of
\* replacing it
ActivateCumulative(u, plan) ==
    [users EXCEPT ![u] =
        [subscription_type |-> "premium",
         subscription_expires |->
            IF users[u].subscription_expires = NULL
            THEN <<now + timedelta(SubscriptionDays(plan))>>
            ELSE <<users[u].subscription_expires[1] + timedelta(SubscriptionDays(plan))>>]]

\* a variant of Activate that writes the columns of another user than u
ActivateOther(u, plan) ==
    LET v == CHOOSE w \in Users : w # u IN
    [users EXCEPT ![v] = [subscription_type |-> "premium",
                          subscription_expires |-> <<now + timedelta(SubscriptionDays(plan))>>]]

\* subscription_type = 'premium'; subscription_expires = utcnow() + timedelta(days)
Activate(u, plan) ==
    [users EXCEPT ![u] = [subscription_type |-> "premium",
                          subscription_expires |-> <<now + timedelta(SubscriptionDays(plan))>>]]

(***************************************************************************)
(* Gateway client (class PaystackPayment)                                  *)
(***************************************************************************)
SecretKey == "sk_live"
AttackerKey == "sk_forged"

\* the methods class PaystackPayment defines
PaystackPaymentMethods ==
    {"initialize_transaction", "verify_transaction", "create_plan",
     "create_subscription", "verify_webhook_signature", "get_banks"}

\* hmac.new(key, payload, hashlib.sha512).hexdigest(): an ideal MAC, one
\* digest per (key, bytes)
hmac_new(key, payload) == <<key, payload>>

\* hmac.compare_digest(str, None) raises TypeError
CompareDigestRaises(signature) == signature = NoSignature

\* PaystackPayment.verify_webhook_signature
verify_webhook_signature(payload, signature) ==
    hmac_new(SecretKey, payload) = signature

\* the status the verify endpoint reports for a gateway transaction
GatewayDataStatus(s) == IF s = "pending" THEN "abandoned" ELSE s

\* a variant of VerifiedSuccess that trusts any answered verify call
VerifiedAnswered(v) == v.status

\* verification.get('status') and verification['data']['status'] == 'success'
VerifiedSuccess(v) == v.status /\ v.data_status = "success"

\* a variant of verify_transaction that passes off a transport failure as
\* the gateway's last known answer
verify_transaction_failopen(reference, net) ==
    IF reference \notin DOMAIN gw
    THEN [status |-> FALSE, data_status |-> None]
    ELSE [status |-> TRUE, data_status |-> GatewayDataStatus(gw[reference].status)]

\* PaystackPayment.verify_transaction: a transport failure, a non-2xx answer
\* (an unknown reference is one) give status False
verify_transaction(reference, net) ==
    IF net = "error" \/ reference \notin DOMAIN gw
    THEN [status |-> FALSE, data_status |-> None]
    ELSE [status |-> TRUE, data_status |-> GatewayDataStatus(gw[reference].status)]


\* a variant of initialize_transaction without the except clause: the
\* transport failure reaches the caller
initialize_transaction_unguarded(e, amount, plan_type, g) ==
    LET reference == Reference(now, e) IN
    IF g = "network"
    THEN [raised |-> TRUE, status |-> FALSE, message |-> None, reference |-> NoRef]
    ELSE IF g = "ok" /\ reference \notin DOMAIN gw
    THEN [raised |-> FALSE, status |-> TRUE, message |-> "Authorization URL created",
          reference |-> reference]
    ELSE [raised |-> FALSE, status |-> FALSE, message |-> "gateway error",
          reference |-> NoRef]

\* PaystackPayment.initialize_transaction; g is what the HTTP call does:
\*   "ok"        200, and status true unless the gateway already holds the
\*               reference (it refuses a duplicate reference)
\*   "rejected"  a non-2xx answer with the gateway's message
\*   "network"   requests.exceptions.RequestException: no answer, or an
\*               answer whose body is not JSON
initialize_transaction(e, amount, plan_type, g) ==
    LET reference == Reference(now, e) IN
    IF g = "network"
    THEN [raised |-> FALSE, status |-> FALSE,
          message |-> "Payment initialization failed", reference |-> NoRef]
    ELSE IF g = "ok" /\ reference \notin DOMAIN gw
    THEN [raised |-> FALSE, status |-> TRUE, message |-> "Authorization URL created",
          reference |-> reference]
    ELSE [raised |-> FALSE, status |-> FALSE, message |-> "gateway error",
          reference |-> NoRef]

(***************************************************************************)
(* The upstream gateway (environment)                                      *)
(***************************************************************************)
\* what the gateway holds of a transaction: the payload's email, amount (in
\* hundredths of the currency unit), currency and metadata.plan_type
GatewayTxn(e, amount, plan, status, events) ==
    [email |-> e, amount |-> amount, currency |-> "ZAR", plan_type |-> plan,
     status |-> status, events |-> events]

Register(reference, entry) ==
    [r \in DOMAIN gw \cup {reference} |-> IF r = reference THEN entry ELSE gw[r]]

\* the customer pays, or a charge attempt fails; a failed attempt may be
\* retried under the same reference.  The gateway queues the event's webhook.
GatewayCharge(r, outcome) ==
    /\ r \in DOMAIN gw
    /\ \/ gw[r].status = "pending"
       \/ gw[r].status = "failed" /\ outcome = "success"
    /\ gw' = [gw EXCEPT ![r].status = outcome,
                        ![r].events = @ \cup {IF outcome = "success"
                                              THEN "charge.success"
                                              ELSE "charge.failed"}]
    /\ UNCHANGED <<configured, now, users, txns, response>>

\* a transaction of the same gateway account that this system did not
\* initialize (its metadata may carry no plan_type)
GatewayForeign(e, plan) ==
    /\ ForeignRef \notin DOMAIN gw
    /\ Cardinality(DOMAIN gw) < MaxTxns
    /\ gw' = Register(ForeignRef,
                      GatewayTxn(e, AmountCents(PlanAmount(PlanOrDefault(plan))),
                                 plan, "pending", {}))
    /\ UNCHANGED <<configured, now, users, txns, response>>

\* the clock is read at instants a year and a day apart: a subscription
\* period granted at one instant has run out at the next
TickLength == timedelta(366)

Tick ==
    /\ now < MaxNow * TickLength
    /\ now' = now + TickLength
    /\ UNCHANGED <<configured, users, txns, gw, response>>

(***************************************************************************)
(* Request handlers (src/app.py)                                           *)
(***************************************************************************)
\* a variant of premium_required that takes the subscription away when it
\* finds it expired
premium_required_downgrading(u) ==
    /\ UNCHANGED <<configured, now, txns, gw>>
    /\ IF users[u].subscription_type = "free"
       THEN /\ Respond("premium_required", 403, "Premium subscription required")
            /\ UNCHANGED users
       ELSE IF /\ users[u].subscription_expires # NULL
               /\ users[u].subscription_expires[1] < now
       THEN /\ Respond("premium_required", 403, "Subscription expired")
            /\ users' = [users EXCEPT ![u] = [subscription_type |-> "free",
                                               subscription_expires |-> NULL]]
       ELSE /\ Respond("premium_required", 200, "premium content")
            /\ UNCHANGED users

\* a route decorated with @premium_required, called by the logged-in user u
premium_required(u) ==
    /\ UNCHANGED <<configured, now, users, txns, gw>>
    /\ IF users[u].subscription_type = "free"
       THEN Respond("premium_required", 403, "Premium subscription required")
       ELSE IF /\ users[u].subscription_expires # NULL
               /\ users[u].subscription_expires[1] < now
       THEN Respond("premium_required", 403, "Subscription expired")
       ELSE Respond("premium_required", 200, "premium content")

\* POST /api/payment/initialize as user u, body plan_type p; g is the
\* gateway's answer, db the storage's
initialize_payment(u, p, g, db) ==
    LET plan_type == PlanOrDefault(p)
        amount    == PlanAmount(plan_type)
        result    == initialize_transaction(email(u), amount, plan_type, g)
        rows      == Append(txns, PaymentTransaction(u, result.reference, amount,
                                                     plan_type, "pending"))
    IN
    /\ UNCHANGED <<configured, now, users>>
    /\ IF ~configured
       THEN /\ Respond("initialize_payment", 500, "Payment system not configured")
            /\ UNCHANGED <<txns, gw>>
       ELSE IF result.raised
       THEN /\ Respond("initialize_payment", 500, "Payment initialization failed")
            /\ UNCHANGED <<txns, gw>>
       ELSE IF result.status
       THEN /\ Cardinality(DOMAIN gw) < MaxTxns
            /\ gw' = Register(result.reference,
                              GatewayTxn(email(u), AmountCents(amount), plan_type,
                                         "pending", {}))
            /\ IF CommitRaises(rows, db)
               THEN /\ Respond("initialize_payment", 500, "Payment initialization failed")
                    /\ UNCHANGED txns
               ELSE /\ Len(txns) < MaxTxns
                    /\ txns' = rows
                    /\ Respond("initialize_payment", 200, "initialized")
       ELSE /\ Respond("initialize_payment", 400, result.message)
            /\ UNCHANGED <<txns, gw>>

\* a variant of payment_success without the check that the gateway client
\* was constructed
payment_success_unchecked(reference, net, db) ==
    LET verification == verify_transaction(reference, net)
        i == FirstByReference(reference)
    IN
    /\ UNCHANGED <<configured, now, gw>>
    /\ IF reference # NoRef /\ VerifiedSuccess(verification)
       THEN IF i # 0
            THEN IF CommitRaises(txns, db)
                 THEN /\ Respond("payment_success", 500, "Internal Server Error")
                      /\ UNCHANGED <<txns, users>>
                 ELSE /\ txns' = [txns EXCEPT ![i].status = "completed"]
                      /\ users' = Activate(txns[i].user_id, txns[i].plan_type)
                      /\ Respond("payment_success", 200, "payment_success")
            ELSE /\ Respond("payment_success", 200, "payment_success")
                 /\ UNCHANGED <<txns, users>>
       ELSE /\ Respond("payment_success", 200, "payment_error")
            /\ UNCHANGED <<txns, users>>

\* GET /payment/success?reference=...
payment_success(reference, net, db) ==
    LET verification == verify_transaction(reference, net)
        i == FirstByReference(reference)
    IN
    /\ UNCHANGED <<configured, now, gw>>
    /\ IF reference # NoRef /\ configured /\ VerifiedSuccess(verification)
       THEN IF i # 0
            THEN IF CommitRaises(txns, db)
                 THEN /\ Respond("payment_success", 500, "Internal Server Error")
                      /\ UNCHANGED <<txns, users>>
                 ELSE /\ txns' = [txns EXCEPT ![i].status = "completed"]
                      /\ users' = Activate(txns[i].user_id, txns[i].plan_type)
                      /\ Respond("payment_success", 200, "payment_success")
            ELSE /\ Respond("payment_success", 200, "payment_success")
                 /\ UNCHANGED <<txns, users>>
       ELSE /\ Respond("payment_success", 200, "payment_error")
            /\ UNCHANGED <<txns, users>>

\* GET /api/payment/verify/<reference> as the logged-in user u
verify_payment(u, reference, net, db) ==
    LET resp == verify_transaction(reference, net)
        i == FirstByReferenceAndUser(reference, u)
    IN
    /\ UNCHANGED <<configured, now, gw>>
    /\ IF ~configured
       THEN /\ Respond("verify_payment", 500, "Payment system not configured")
            /\ UNCHANGED <<txns, users>>
       ELSE IF VerifiedSuccess(resp) /\ i # 0
       THEN IF CommitRaises(txns, db)
            THEN /\ Respond("verify_payment", 500, "Payment verification failed")
                 /\ UNCHANGED <<txns, users>>
            ELSE /\ txns' = [txns EXCEPT ![i].status = "completed"]
                 /\ users' = Activate(u, txns[i].plan_type)
                 /\ Respond("verify_payment", 200,
                            "Payment verified and subscription activated!")
       ELSE /\ Respond("verify_payment", 400, "Payment verification failed")
            /\ UNCHANGED <<txns, users>>


\* a variant of the dispatch that takes every event for a successful charge
IsAnyEvent(event) == TRUE

\* event == 'charge.success'
IsChargeSuccess(event) == event = "charge.success"

\* POST /api/payment/webhook, first registration (app.py:475).  The handler
\* calls paystack.verify_webhook, which class PaystackPayment does not
\* define: the AttributeError is caught by the handler's except clause.
paystack_webhook(raw, signature, db) ==
    LET data == get_json(raw)
        i == FirstByReference(data.reference)
    IN
    /\ UNCHANGED <<configured, now, gw>>
    /\ IF ~configured
       THEN /\ Respond("paystack_webhook", 500, "Payment system not configured")
            /\ UNCHANGED <<txns, users>>
       ELSE IF "verify_webhook" \notin PaystackPaymentMethods
       THEN /\ Respond("paystack_webhook", 500, "Webhook processing failed")
            /\ UNCHANGED <<txns, users>>
       ELSE IF CompareDigestRaises(signature)
       THEN /\ Respond("paystack_webhook", 500, "Webhook processing failed")
            /\ UNCHANGED <<txns, users>>
       ELSE IF /\ verify_webhook_signature(raw, signature)
               /\ IsChargeSuccess(data.event)
               /\ i # 0
       THEN IF CommitRaises(txns, db)
            THEN /\ Respond("paystack_webhook", 500, "Webhook processing failed")
                 /\ UNCHANGED <<txns, users>>
            ELSE /\ txns' = [txns EXCEPT ![i].status = "completed"]
                 /\ users' = Activate(txns[i].user_id, txns[i].plan_type)
                 /\ Respond("paystack_webhook", 200, "success")
       ELSE /\ Respond("paystack_webhook", 400, "Invalid webhook")
            /\ UNCHANGED <<txns, users>>

\* handle_paystack_webhook(webhook_data, signature)
\* (paystack_integration.py:183); every exception is caught and returned as
\* {"status": "error"}.  which names the caller for the response.
handle_paystack_webhook(which, webhook_data, signature, db) ==
    LET payload   == json_dumps(webhook_data)
        event     == webhook_data.event
        reference == webhook_data.reference
        plan_type == PlanOrDefault(webhook_data.plan_type)
        user      == UserByEmail(webhook_data.email)
        \* amount = data.get('amount', 0) / 100, kept in hundredths
        rows      == Append(txns, PaymentTransaction(user, reference,
                                                     webhook_data.amount,
                                                     plan_type, "completed"))
        i         == FirstByReference(reference)
    IN
    IF CompareDigestRaises(signature)
    THEN /\ Respond(which, 200, "error: TypeError")
         /\ UNCHANGED <<txns, users>>
    ELSE IF ~verify_webhook_signature(payload, signature)
    THEN /\ Respond(which, 200, "error: Invalid signature")
         /\ UNCHANGED <<txns, users>>
    ELSE IF IsChargeSuccess(event)
    THEN IF user # None
         THEN IF CommitRaises(rows, db)
              THEN /\ Respond(which, 200, "error: commit failed")
                   /\ UNCHANGED <<txns, users>>
              ELSE /\ Cardinality({rows[n].paystack_reference : n \in 1..Len(rows)}) <= MaxTxns
                   /\ txns' = rows
                   /\ users' = Activate(user, plan_type)
                   /\ Respond(which, 200, "success: Subscription activated")
         ELSE /\ Respond(which, 200, "processed")
              /\ UNCHANGED <<txns, users>>
    ELSE IF event = "charge.failed"
    THEN IF i # 0
         THEN IF CommitRaises(txns, db)
              THEN /\ Respond(which, 200, "error: commit failed")
                   /\ UNCHANGED <<txns, users>>
              ELSE /\ txns' = [txns EXCEPT ![i].status = "failed"]
                   /\ Respond(which, 200, "failed: Payment failed")
                   /\ UNCHANGED users
         ELSE /\ Respond(which, 200, "failed: Payment failed")
              /\ UNCHANGED <<txns, users>>
    ELSE /\ Respond(which, 200, "processed")
         /\ UNCHANGED <<txns, users>>

\* POST /api/payment/webhook, second registration (app.py:552): the
\* handler that passes the parsed body to handle_paystack_webhook
payment_webhook(raw, signature, db) ==
    /\ UNCHANGED <<configured, now, gw>>
    /\ IF ~configured
       THEN /\ Respond("payment_webhook", 500, "Payment system not configured")
            /\ UNCHANGED <<txns, users>>
       ELSE handle_paystack_webhook("payment_webhook", get_json(raw), signature, db)

(***************************************************************************)
(* Inputs                                                                  *)
(***************************************************************************)
Bytes(j, fmt) == Raw(j.event, j.reference, j.email, j.amount, j.plan_type, fmt)

\* the JSON body of event ev for the gateway transaction r
GatewayJson(r, ev) ==
    [event |-> ev, reference |-> r, email |-> gw[r].email,
     amount |-> gw[r].amount, plan_type |-> gw[r].plan_type]

\* a body rewritten to credit another customer
Tamper(j) == [j EXCEPT !.event = "charge.success",
                       !.email = IF @ = "a@x.com" THEN "b@x.com" ELSE "a@x.com"]

\* The requests that can reach the webhook endpoint about the gateway
\* transaction r and event ev, by kind:
\*   delivered         the gateway's delivery (at least once, in any order),
\*                     signed over the bytes sent, compact layout
\*   delivered_spaced  the same in another byte layout
\*   relaid            a delivery whose bytes were re-laid-out after signing
\*   tampered          a delivery whose body was rewritten after signing
\*   unsigned          a request without signature header
\*   forged            a request whose digest is made with another key
Kinds == {"delivered", "delivered_spaced", "relaid", "tampered", "unsigned", "forged"}

Sendable(r, ev, k) ==
    CASE k = "delivered" -> ev \in gw[r].events \cup {OtherEvent}
      [] k \in {"delivered_spaced", "relaid", "tampered"} -> ev \in gw[r].events
      [] k = "unsigned" -> ev = "charge.success"
      [] k = "forged" -> ev = "charge.failed"

RawOf(r, ev, k) ==
    CASE k \in {"delivered_spaced", "relaid"} -> Bytes(GatewayJson(r, ev), "spaced")
      [] k = "tampered" -> Bytes(Tamper(GatewayJson(r, ev)), "compact")
      [] OTHER -> Bytes(GatewayJson(r, ev), "compact")

SignatureOf(r, ev, k) ==
    CASE k = "delivered_spaced" -> hmac_new(SecretKey, Bytes(GatewayJson(r, ev), "spaced"))
      [] k = "unsigned" -> NoSignature
      [] k = "forged" -> hmac_new(AttackerKey, Bytes(GatewayJson(r, ev), "compact"))
      [] OTHER -> hmac_new(SecretKey, Bytes(GatewayJson(r, ev), "compact"))

\* the storage's answers worth telling apart: it is reached only by a
\* request that carries a digest under the secret key
WebhookDbOutcomes(k) ==
    IF k \in {"unsigned", "forged"} THEN {"ok"} ELSE {"ok", "fail"}

\* references a client may ask about
PollReferences == DOMAIN gw \cup {NoRef}

DbOutcomes == {"ok", "fail"}                       \* the storage's answer

\* <<the initialize call's answer, the storage's answer>>; the storage is
\* reached only after the gateway accepted
InitializeOutcomes ==
    {<<"ok", "ok">>, <<"ok", "fail">>, <<"rejected", "ok">>, <<"network", "ok">>}

\* <<the verify call's transport, the storage's answer>>; the storage is
\* reached only after the gateway answered
VerifyOutcomes == {<<"ok", "ok">>, <<"ok", "fail">>, <<"error", "ok">>}

\* metadata.plan_type of a transaction made outside this system
ForeignPlans == {"annual", "lifetime"}
ForeignEmails == {"b@x.com", UnknownEmail}

\* the user who starts payments; the other one is logged in, polls and is
\* named in webhooks (the handlers treat all users alike)
Payers == {"u1"}

Init ==
    /\ configured \in BOOLEAN
    /\ now = 0
    /\ users = [u \in Users |-> [subscription_type |-> "free",
                                 subscription_expires |-> NULL]]
    /\ txns = << >>
    /\ gw = << >>
    /\ response = NoResponse

\* the handlers that call the gateway
GatewayHandlers == {"initialize_payment", "verify_payment", "payment_success"}

\* handler h is inside its HTTP call to the gateway (a state that only
\* SpecLive tells apart, below)
Waiting(h) == Resp(h, 0, "waiting for the gateway")

Calling == \E h \in GatewayHandlers : response = Waiting(h)

\* the client takes the response; requests are served one at a time
Receive ==
    /\ response # NoResponse
    /\ ~Calling
    /\ response' = NoResponse
    /\ UNCHANGED <<configured, now, users, txns, gw>>

Idle == response = NoResponse

Next ==
    \/ Receive
    \/ Idle /\ Tick
    \/ Idle /\ \E u \in Users : premium_required(u)
    \/ Idle /\ \E r \in DOMAIN gw, o \in {"failed", "success"} : GatewayCharge(r, o)
    \/ Idle /\ \E e \in ForeignEmails, p \in ForeignPlans : GatewayForeign(e, p)
    \/ Idle /\ \E u \in Payers, p \in PlanInputs, o \in InitializeOutcomes :
          initialize_payment(u, p, o[1], o[2])
    \/ Idle /\ \E r \in PollReferences, o \in VerifyOutcomes :
          payment_success(r, o[1], o[2])
    \/ Idle /\ \E u \in Users, r \in DOMAIN gw, o \in VerifyOutcomes :
          verify_payment(u, r, o[1], o[2])
    \* paystack_webhook fails before it reaches the storage
    \/ Idle /\ \E r \in DOMAIN gw, ev \in Events, k \in Kinds :
          /\ Sendable(r, ev, k)
          /\ paystack_webhook(RawOf(r, ev, k), SignatureOf(r, ev, k), "ok")
    \/ Idle /\ \E r \in DOMAIN gw, ev \in Events, k \in Kinds :
          /\ Sendable(r, ev, k)
          /\ \E db \in WebhookDbOutcomes(k) :
                payment_webhook(RawOf(r, ev, k), SignatureOf(r, ev, k), db)

Spec == Init /\ [][Next]_vars

(***************************************************************************)
(* The gateway calls in progress.  initialize_transaction and              *)
(* verify_transaction block in requests.post / requests.get until the      *)
(* call returns; under SpecLive a handler that calls the gateway takes two *)
(* steps, the call and its return, and the gateway may stay silent.        *)
(***************************************************************************)
\* requests.post(url, headers=headers, json=payload) and
\* requests.get(url, headers=headers) pass no timeout: requests then waits
\* for the answer without limit
RequestTimeout == None

\* handler h reaches requests.post / requests.get
Call(h) ==
    /\ configured
    /\ h \in {"verify_payment", "payment_success"} => DOMAIN gw # {}
    /\ response' = Waiting(h)
    /\ UNCHANGED <<configured, now, users, txns, gw>>

\* the HTTP call of handler h returns and the handler runs to its response:
\* the gateway answered (or refused the connection), or the timeout of the
\* call expired, which requests reports as a RequestException
Returns(h, answered) ==
    /\ response = Waiting(h)
    /\ answered \/ RequestTimeout # None
    /\ CASE h = "initialize_payment" ->
               \E u \in Payers, p \in PlanInputs, o \in InitializeOutcomes :
                  /\ ~answered => o[1] = "network"
                  /\ initialize_payment(u, p, o[1], o[2])
         [] h = "verify_payment" ->
               \E u \in Users, r \in DOMAIN gw, o \in VerifyOutcomes :
                  /\ ~answered => o[1] = "error"
                  /\ verify_payment(u, r, o[1], o[2])
         [] h = "payment_success" ->
               \E r \in DOMAIN gw, o \in VerifyOutcomes :
                  /\ ~answered => o[1] = "error"
                  /\ payment_success(r, o[1], o[2])

\* the return that does not depend on the gateway
TimedOut == \E h \in GatewayHandlers : Returns(h, FALSE)

LiveNext ==
    \/ Receive
    \/ Idle /\ Tick
    \/ Idle /\ \E u \in Users : premium_required(u)
    \/ Idle /\ \E r \in DOMAIN gw, o \in {"failed", "success"} : GatewayCharge(r, o)
    \/ Idle /\ \E e \in ForeignEmails, p \in ForeignPlans : GatewayForeign(e, p)
    \/ Idle /\ \E h \in GatewayHandlers : Call(h)
    \/ \E h \in GatewayHandlers, answered \in BOOLEAN : Returns(h, answered)
    \* the runs that answer before any call to the gateway
    \/ Idle /\ ~configured /\ \E u \in Payers, p \in PlanInputs :
          initialize_payment(u, p, "ok", "ok")
    \/ Idle /\ ~configured /\ \E u \in Users, r \in DOMAIN gw :
          verify_payment(u, r, "ok", "ok")
    \/ Idle /\ \E r \in PollReferences :
          /\ ~configured \/ r = NoRef
          /\ payment_success(r, "ok", "ok")
    \/ Idle /\ \E r \in DOMAIN gw, ev \in Events, k \in Kinds :
          /\ Sendable(r, ev, k)
          /\ paystack_webhook(RawOf(r, ev, k), SignatureOf(r, ev, k), "ok")
    \/ Idle /\ \E r \in DOMAIN gw, ev \in Events, k \in Kinds :
          /\ Sendable(r, ev, k)
          /\ \E db \in WebhookDbOutcomes(k) :
                payment_webhook(RawOf(r, ev, k), SignatureOf(r, ev, k), db)

\* the server runs every request it holds to its end, and a timeout that
\* was set expires; nothing makes the gateway answer
SpecLive == Init /\ [][LiveNext]_vars /\ WF_vars(Receive) /\ WF_vars(TimedOut)


(***************************************************************************)
(* Steps the claims speak about                                            *)
(***************************************************************************)
DbChanged == txns' # txns \/ users' # users

\* the first row of the table that carries reference r, 0 if none
RowOf(r) == FirstByReference(r)

\* the step is a webhook handler run on the request (r, ev, k)
WebhookStep(r, ev, k) ==
    /\ Sendable(r, ev, k)
    /\ \/ /\ response'.handler = "paystack_webhook"
          /\ paystack_webhook(RawOf(r, ev, k), SignatureOf(r, ev, k), "ok")
       \/ /\ response'.handler = "payment_webhook"
          /\ \E db \in WebhookDbOutcomes(k) :
                payment_webhook(RawOf(r, ev, k), SignatureOf(r, ev, k), db)

\* the signature header is the HMAC of the raw bytes received
SignedOverRaw(r, ev, k) ==
    SignatureOf(r, ev, k) = hmac_new(SecretKey, RawOf(r, ev, k))

DeliveredKinds == {"delivered", "delivered_spaced"}

\* the step applies a confirmed-success signal for reference r: a delivery
\* of the gateway's charge.success event, or a poll whose verify call
\* reports success
SuccessSignalStep(r) ==
    \/ \E k \in DeliveredKinds : WebhookStep(r, "charge.success", k)
    \/ /\ gw[r].status = "success"
       /\ \/ /\ response'.handler = "payment_success"
             /\ \E db \in DbOutcomes : payment_success(r, "ok", db)
          \/ /\ response'.handler = "verify_payment"
             /\ \E u \in Users, db \in DbOutcomes : verify_payment(u, r, "ok", db)

\* the step applies a failure signal: a charge.failed webhook, or a poll
\* whose verify call does not report success
FailureSignalStep ==
    \/ \E r \in DOMAIN gw, k \in Kinds : WebhookStep(r, "charge.failed", k)
    \/ \E r \in DOMAIN gw, o \in VerifyOutcomes :
          /\ o[1] = "error" \/ gw[r].status # "success"
          /\ \/ payment_success(r, o[1], o[2])
             \/ \E u \in Users : verify_payment(u, r, o[1], o[2])

\* the step is a handler run for reference r that reports the subscription
\* activated
ActivationStep(r) ==
    /\ DbChanged \/ response' # response
    /\ \/ /\ response' = Resp("verify_payment", 200,
                              "Payment verified and subscription activated!")
          /\ \E u \in Users, o \in VerifyOutcomes : verify_payment(u, r, o[1], o[2])
       \/ /\ response' = Resp("payment_success", 200, "payment_success")
          /\ RowOf(r) # 0
          /\ \E o \in VerifyOutcomes : payment_success(r, o[1], o[2])
       \/ /\ response' = Resp("payment_webhook", 200, "success: Subscription activated")
          /\ \E ev \in Events, k \in Kinds : WebhookStep(r, ev, k)
       \/ /\ response' = Resp("paystack_webhook", 200, "success")
          /\ \E ev \in Events, k \in Kinds : WebhookStep(r, ev, k)

ExpiryFor(plan) == <<now + timedelta(IF plan = "annual" THEN 365 ELSE 30)>>

(***************************************************************************)
(* Claims                                                                  *)
(***************************************************************************)

\* C1: a confirmed-success signal for a reference this system initialized
\* and whose Transaction is already completed has no side effects: the
\* table and the users' subscription columns stay as they are.
C1_SecondSuccessNoEffect ==
    [][\A r \in DOMAIN gw \ {ForeignRef} :
          (RowOf(r) # 0 /\ txns[RowOf(r)].status = "completed" /\ SuccessSignalStep(r))
              => UNCHANGED <<txns, users>>]_vars

\* C2: the write of subscription_expires is guarded by the compare-and-set
\* pending -> completed: whenever the expiry of a user who owns a
\* Transaction this system initialized is written, one of that user's
\* Transactions goes from pending to completed in the same step.
C2_ExpiryWriteOnlyWithCompareAndSet ==
    [][\A u \in Users :
          (/\ users'[u].subscription_expires # users[u].subscription_expires
           /\ \E i \in 1..Len(txns) : /\ txns[i].user_id = u
                                       /\ txns[i].paystack_reference # ForeignRef)
              => \E i \in 1..Len(txns) :
                    /\ txns[i].user_id = u
                    /\ txns[i].status = "pending"
                    /\ i <= Len(txns') /\ txns'[i].status = "completed"]_vars

\* C3: a webhook signed over its raw body, with event charge.success, for a
\* reference whose Transaction is pending, completes the Transaction and
\* makes its owner premium (the storage working).
C3_SignedSuccessWebhookCompletes ==
    [][\A r \in DOMAIN gw : \A k \in DeliveredKinds :
          (/\ RowOf(r) # 0 /\ txns[RowOf(r)].status = "pending"
           /\ Sendable(r, "charge.success", k)
           /\ \/ paystack_webhook(RawOf(r, "charge.success", k),
                                   SignatureOf(r, "charge.success", k), "ok")
              \/ payment_webhook(RawOf(r, "charge.success", k),
                                  SignatureOf(r, "charge.success", k), "ok"))
              => /\ txns'[RowOf(r)].status = "completed"
                 /\ users'[txns[RowOf(r)].user_id].subscription_type = "premium"]_vars

\* C4: a webhook whose signature header is missing or is not the HMAC of
\* the raw body is answered as an invalid signature, and changes no
\* Transaction and no user.
RejectedAsInvalidSignature(resp) ==
    \/ resp = Resp("paystack_webhook", 400, "Invalid webhook")
    \/ resp = Resp("payment_webhook", 200, "error: Invalid signature")

C4_UnverifiedWebhookRejected ==
    [][\A r \in DOMAIN gw, ev \in Events, k \in Kinds :
          (configured /\ ~SignedOverRaw(r, ev, k) /\ WebhookStep(r, ev, k))
              => /\ RejectedAsInvalidSignature(response')
                 /\ UNCHANGED <<txns, users>>]_vars

\* C5: a success signal for a reference that has no Transaction changes no
\* user and creates no Transaction.
C5_UnknownReferenceChangesNothing ==
    [][\A r \in DOMAIN gw :
          (RowOf(r) = 0 /\ SuccessSignalStep(r)) => UNCHANGED <<txns, users>>]_vars

\* C6: a failure signal (a charge.failed webhook, a verify call that does
\* not report success) changes no user's subscription_type or
\* subscription_expires.
C6_FailureKeepsSubscription ==
    [][users' = users \/ ~FailureSignalStep]_vars

\* C6 witness: a charge.failed webhook has marked the Transaction of a
\* premium user failed.
C6_Witness ==
    /\ response.handler = "payment_webhook"
    /\ response.body = "failed: Payment failed"
    /\ \E i \in 1..Len(txns) :
          /\ txns[i].status = "failed"
          /\ users[txns[i].user_id].subscription_type = "premium"

\* C7: a handler run that reports the subscription activated for a
\* Transaction of plan monthly or annual leaves the Transaction completed
\* and its owner premium with subscription_expires = now + 365 days for
\* annual, now + 30 days for monthly, whatever the expiry was before.
C7_ExpiryIsNowPlusPlanDays ==
    [][\A r \in DOMAIN gw :
          (response'.code = 200 /\ ActivationStep(r)) =>
              \A i \in 1..Len(txns') :
                  (/\ txns'[i].paystack_reference = r
                   /\ txns'[i].plan_type \in {"monthly", "annual"})
                      => /\ txns'[i].status = "completed"
                         /\ users'[txns'[i].user_id] =
                               [subscription_type |-> "premium",
                                subscription_expires |-> ExpiryFor(txns'[i].plan_type)]]_vars

\* C7 witness: an annual Transaction made at time 0 has been reconciled
\* after the clock moved, and its owner's expiry is now + 365 days.
C7_Witness ==
    /\ now > 0
    /\ response.code = 200
    /\ response.handler \in {"verify_payment", "payment_success"}
    /\ \E i \in 1..Len(txns) :
          /\ txns[i].plan_type = "annual"
          /\ txns[i].status = "completed"
          /\ txns[i].paystack_reference[1] = 0
          /\ users[txns[i].user_id].subscription_expires = <<now + timedelta(365)>>

\* C8: the status of a Transaction changes only from pending.
C8_StatusMonotonic ==
    [][\A i \in 1..Len(txns) :
          (i <= Len(txns') /\ txns'[i].status # txns[i].status)
              => txns[i].status = "pending"]_vars

\* C9: the scenario.  A signed charge.success webhook for the pending
\* monthly Transaction R1 makes its owner premium with expiry now + 30 days;
\* a further delivery for R1 changes nothing; a poll verify for R1 then
\* answers 200 and changes nothing.
C9_Scenario ==
    [][\A r \in DOMAIN gw :
          RowOf(r) # 0 /\ txns[RowOf(r)].plan_type = "monthly" =>
              LET i == RowOf(r)
                  owner == txns[i].user_id
              IN
              /\ \A k \in DeliveredKinds :
                    WebhookStep(r, "charge.success", k) =>
                        IF txns[i].status = "pending"
                        THEN /\ txns'[i].status = "completed"
                             /\ users'[owner] =
                                   [subscription_type |-> "premium",
                                    subscription_expires |-> ExpiryFor("monthly")]
                        ELSE UNCHANGED <<txns, users>>
              /\ \A db \in DbOutcomes :
                    (/\ txns[i].status = "completed"
                     /\ gw[r].status = "success"
                     /\ verify_payment(owner, r, "ok", db))
                        => response'.code = 200 /\ UNCHANGED <<txns, users>>]_vars

\* C10: handle_paystack_webhook, called by payment_webhook, goes past its
\* signature check exactly when the signature header is the HMAC-SHA512 of
\* the raw bytes received, whatever the layout of the bytes.
PastSignatureCheck(resp) ==
    resp.body \in {"success: Subscription activated", "processed",
                   "failed: Payment failed", "error: commit failed"}

C10_AcceptsExactlySignedRawBytes ==
    [][\A r \in DOMAIN gw, ev \in Events, k \in Kinds :
          (/\ configured
           /\ response'.handler = "payment_webhook"
           /\ WebhookStep(r, ev, k))
              => (PastSignatureCheck(response') <=> SignedOverRaw(r, ev, k))]_vars

\* C11: the write of status = completed and the write of the owner's
\* subscription columns are visible together or not at all: a row that
\* becomes completed comes with its owner made premium until now + the
\* plan's days, a user is only written along with a completed row of that
\* user, and a reconciliation whose commit fails leaves both as they were.
CommitFailed(resp) ==
    \/ resp = Resp("payment_success", 500, "Internal Server Error")
    \/ resp = Resp("verify_payment", 500, "Payment verification failed")
    \/ resp = Resp("payment_webhook", 200, "error: commit failed")

C11_BothWritesOrNeither ==
    [][/\ \A i \in 1..Len(txns') :
             (/\ txns'[i].status = "completed"
              /\ (i > Len(txns) \/ txns[i].status # "completed"))
                 => users'[txns'[i].user_id] =
                       [subscription_type |-> "premium",
                        subscription_expires |->
                           <<now + timedelta(SubscriptionDays(txns'[i].plan_type))>>]
       /\ \A u \in Users :
             users'[u] # users[u]
                 => \E i \in 1..Len(txns') : /\ txns'[i].user_id = u
                                             /\ txns'[i].status = "completed"
       /\ CommitFailed(response') => UNCHANGED <<txns, users>>]_vars

\* C11 witness: the commit of a poll for a paid reference failed; the row
\* is still pending and its owner still free.
C11_Witness ==
    /\ response = Resp("payment_success", 500, "Internal Server Error")
    /\ \E i \in 1..Len(txns) :
          /\ txns[i].status = "pending"
          /\ users[txns[i].user_id].subscription_type = "free"
          /\ txns[i].paystack_reference \in DOMAIN gw
          /\ gw[txns[i].paystack_reference].status = "success"

\* C12: a premium user has subscription_expires set, and every write of
\* subscription_expires stores a time later than the time of the write.
C12_PremiumHasFutureExpiry ==
    /\ [](\A u \in Users :
             users[u].subscription_type = "premium"
                 => users[u].subscription_expires # NULL)
    /\ [][\A u \in Users :
             users'[u].subscription_expires # users[u].subscription_expires
                 => /\ users'[u].subscription_expires # NULL
                    /\ users'[u].subscription_expires[1] > now]_vars

\* C12 witness: after the clock moved, a user is premium with an expiry in
\* the future.
C12_Witness ==
    /\ now > 0
    /\ \E u \in Users :
          /\ users[u].subscription_type = "premium"
          /\ users[u].subscription_expires # NULL
          /\ users[u].subscription_expires[1] > now

\* C13: the table never holds two Transactions with one reference, and a
\* row keeps its reference for ever (no row is removed or re-keyed).
C13_OneTransactionPerReference ==
    /\ [](\A i, j \in 1..Len(txns) :
             txns[i].paystack_reference = txns[j].paystack_reference => i = j)
    /\ [][\A i \in 1..Len(txns) :
             /\ i <= Len(txns')
             /\ txns'[i].paystack_reference = txns[i].paystack_reference]_vars

\* C13 witness: the charge.success webhook of a reference that already has
\* its Transaction was handled by handle_paystack_webhook, whose insert
\* was refused; the table still holds the one row.
C13_Witness ==
    /\ response = Resp("payment_webhook", 200, "error: commit failed")
    /\ Len(txns) = 1
    /\ txns[1].paystack_reference \in DOMAIN gw
    /\ "charge.success" \in gw[txns[1].paystack_reference].events

\* the step is a run of initialize_payment by user u with body plan p and
\* outcomes o, the client being configured
InitializeStep(u, p, o) ==
    /\ configured
    /\ response'.handler = "initialize_payment"
    /\ initialize_payment(u, p, o[1], o[2])

\* the answer of the gateway client inside that run
InitializeResult(u, p, o) ==
    initialize_transaction(email(u), PlanAmount(PlanOrDefault(p)), PlanOrDefault(p), o[1])

\* C14: a call of initialize_transaction never generates a reference that
\* an earlier call generated.
C14_FreshReference ==
    [][\A u \in Users, p \in PlanInputs, o \in InitializeOutcomes :
          InitializeStep(u, p, o) => Reference(now, email(u)) \notin DOMAIN gw]_vars

C16_InitializeNeverRaises ==
    [][\A u \in Users, p \in PlanInputs, o \in InitializeOutcomes :
          InitializeStep(u, p, o) =>
              LET result == InitializeResult(u, p, o) IN
              /\ ~result.raised
              /\ o[1] \in {"rejected", "network"} =>
                    /\ ~result.status
                    /\ result.message # None
                    /\ response' = Resp("initialize_payment", 400, result.message)]_vars

\* C16 witness: the HTTP call failed in transport and initialize_payment
\* answered 400 with the client's message; nothing was stored.
C16_Witness ==
    /\ response = Resp("initialize_payment", 400, "Payment initialization failed")
    /\ txns = << >>
    /\ gw = << >>

\* what a poll that verified success leaves for reference r: the row
\* completed and its owner activated; nothing changed if r has no row
Reconciled(r) ==
    LET i == RowOf(r) IN
    IF i = 0 THEN <<txns, users>>
    ELSE <<[txns EXCEPT ![i].status = "completed"],
           Activate(txns[i].user_id, txns[i].plan_type)>>

\* C17: for a reference the gateway reports paid, a poll that verifies
\* success (payment_success, verify_payment by the owner) and a valid
\* charge.success webhook leave the same table and the same users (the
\* storage working).
C17_PollEquivalentToWebhook ==
    [][\A r \in DOMAIN gw :
          (configured /\ gw[r].status = "success") =>
              /\ (/\ response'.handler = "payment_success"
                  /\ payment_success(r, "ok", "ok"))
                    => <<txns', users'>> = Reconciled(r)
              /\ (/\ response'.handler = "verify_payment"
                  /\ RowOf(r) # 0
                  /\ verify_payment(txns[RowOf(r)].user_id, r, "ok", "ok"))
                    => <<txns', users'>> = Reconciled(r)
              /\ \A k \in DeliveredKinds :
                    (/\ Sendable(r, "charge.success", k)
                     /\ \/ /\ response'.handler = "paystack_webhook"
                           /\ paystack_webhook(RawOf(r, "charge.success", k),
                                               SignatureOf(r, "charge.success", k), "ok")
                        \/ /\ response'.handler = "payment_webhook"
                           /\ payment_webhook(RawOf(r, "charge.success", k),
                                              SignatureOf(r, "charge.success", k), "ok"))
                        => <<txns', users'>> = Reconciled(r)]_vars

\* C18: a confirmed-success signal for a reference without Transaction is
\* answered as a failure by every handler.
ReportsFailure(resp) ==
    \/ resp.code >= 400
    \/ resp.body \in {"payment_error", "error: TypeError", "error: Invalid signature",
                      "error: commit failed"}

C18_UnknownReferenceReported ==
    [][\A r \in DOMAIN gw :
          (configured /\ RowOf(r) = 0 /\ SuccessSignalStep(r))
              => ReportsFailure(response')]_vars

\* C19: a webhook whose signature header is missing or is not the HMAC of
\* the raw body is answered 4xx, and a webhook whose processing failed is
\* answered with a code outside 2xx.
ProcessingFailed(resp) ==
    resp.body \in {"error: TypeError", "error: commit failed", "Webhook processing failed"}

C19_WebhookResponseCodes ==
    [][\A r \in DOMAIN gw, ev \in Events, k \in Kinds :
          (configured /\ WebhookStep(r, ev, k)) =>
              /\ ~SignedOverRaw(r, ev, k) => response'.code \in 400..499
              /\ ProcessingFailed(response') => response'.code \notin 200..299]_vars

\* C20: a charge.failed webhook changes the status of no Transaction that
\* is not pending.
C20_FailedOnlyFromPending ==
    [][\A r \in DOMAIN gw, k \in Kinds :
          WebhookStep(r, "charge.failed", k) =>
              \A i \in 1..Len(txns) :
                  txns[i].status # "pending"
                      => i <= Len(txns') /\ txns'[i].status = txns[i].status]_vars

\* C21: when the gateway's verify call fails in transport, verify_payment
\* and payment_success do not crash, report that the payment could not be
\* verified, and change no Transaction and no user
C21_TransportFailureChangesNothing ==
    [][/\ \A r \in PollReferences :
            (/\ configured
             /\ response'.handler = "payment_success"
             /\ payment_success(r, "error", "ok"))
            => /\ response' = Resp("payment_success", 200, "payment_error")
               /\ UNCHANGED <<txns, users>>
       /\ \A u \in Users, r \in DOMAIN gw :
            (/\ configured
             /\ response'.handler = "verify_payment"
             /\ verify_payment(u, r, "error", "ok"))
            => /\ response' = Resp("verify_payment", 400, "Payment verification failed")
               /\ UNCHANGED <<txns, users>>]_vars

\* a paid, still pending Transaction of a free user whose owner was just
\* told that the payment could not be verified
C21_Witness ==
    /\ configured
    /\ response = Resp("verify_payment", 400, "Payment verification failed")
    /\ \E i \in 1..Len(txns) :
          /\ txns[i].status = "pending"
          /\ txns[i].paystack_reference \in DOMAIN gw
          /\ gw[txns[i].paystack_reference].status = "success"
          /\ users[txns[i].user_id].subscription_type = "free"
    /\ \A u \in Users : users[u].subscription_type = "free"

\* C22: no payment operation blocks for ever: a call to the gateway that
\* is in progress eventually returns, also when the gateway never answers,
\* and the handler then responds
C22_GatewayCallReturns == Calling ~> ~Calling

\* C23: every Transaction recorded has plan_type monthly or annual,
\* whatever the client sends to initialize_payment and whatever metadata
\* a webhook carries
C23_PlanTypeMonthlyOrAnnual ==
    \A i \in 1..Len(txns) : txns[i].plan_type \in {"monthly", "annual"}

\* C24: the currency recorded on a Transaction created by
\* initialize_payment is the currency sent to the gateway for that
\* reference, and the recorded amount is the amount charged in that currency
C24_RecordedCurrencyIsChargedCurrency ==
    \A i \in 1..Len(txns) :
        LET r == txns[i].paystack_reference IN
        (r # ForeignRef /\ r \in DOMAIN gw)
        => /\ txns[i].currency = gw[r].currency
           /\ txns[i].amount = gw[r].amount

\* C25: every step that sets a user premium or writes the user's
\* subscription_expires is a reconciliation of one reference that leaves a
\* completed Transaction of that reference owned by that user: no handler
\* upgrades a user other than the owner of the Transaction reconciled
C25_UpgradeOnlyForOwner ==
    [][\A u \in Users :
          users'[u] # users[u]
          => \E r \in DOMAIN gw :
                /\ ActivationStep(r)
                /\ \E i \in 1..Len(txns') :
                      /\ txns'[i].paystack_reference = r
                      /\ txns'[i].user_id = u
                      /\ txns'[i].status = "completed"]_vars

\* the owner of a Transaction was made premium by a poll and the other user
\* stays free
C25_Witness ==
    /\ response = Resp("payment_success", 200, "payment_success")
    /\ \E i \in 1..Len(txns) :
          /\ txns[i].status = "completed"
          /\ users[txns[i].user_id].subscription_type = "premium"
          /\ \E v \in Users : v # txns[i].user_id /\ users[v].subscription_type = "free"

\* C26: verify_payment called by a user for a reference whose Transaction
\* belongs to another user changes no Transaction and no user and answers
\* 400 'Payment verification failed', whatever the gateway reports
C26_VerifyByNonOwnerRefused ==
    [][\A u \in Users, r \in DOMAIN gw, o \in VerifyOutcomes :
          (/\ configured
           /\ response'.handler = "verify_payment"
           /\ RowOf(r) # 0
           /\ txns[RowOf(r)].user_id # u
           /\ verify_payment(u, r, o[1], o[2]))
          => /\ response' = Resp("verify_payment", 400, "Payment verification failed")
             /\ UNCHANGED <<txns, users>>]_vars

\* a user who owns no Transaction was answered 400 while the gateway
\* reports the other user's Transaction paid
C26_Witness ==
    /\ configured
    /\ response = Resp("verify_payment", 400, "Payment verification failed")
    /\ \E i \in 1..Len(txns) :
          /\ txns[i].paystack_reference \in DOMAIN gw
          /\ gw[txns[i].paystack_reference].status = "success"
          /\ txns[i].status = "completed"
          /\ users[txns[i].user_id].subscription_type = "premium"
          /\ \E v \in Users : v # txns[i].user_id /\ users[v].subscription_type = "free"
    /\ \A i \in 1..Len(txns) : txns[i].status = "completed"

C28_NeverDowngraded ==
    [][\A u \in Users :
          /\ users[u].subscription_type = "premium"
                => users'[u].subscription_type = "premium"
          /\ users[u].subscription_expires # NULL
                => users'[u].subscription_expires # NULL]_vars

\* a premium user whose expiry has passed was refused the premium content
\* and is still recorded premium with the expiry written
C28_Witness ==
    /\ response = Resp("premium_required", 403, "Subscription expired")
    /\ \E u \in Users :
          /\ users[u].subscription_type = "premium"
          /\ users[u].subscription_expires # NULL
          /\ users[u].subscription_expires[1] < now

\* C29: a validly signed webhook whose event is neither charge.success nor
\* charge.failed changes no Transaction and no user, in paystack_webhook
\* and in handle_paystack_webhook
C29_OtherEventChangesNothing ==
    [][\A r \in DOMAIN gw, k \in DeliveredKinds :
          (/\ configured
           /\ SignedOverRaw(r, OtherEvent, k)
           /\ WebhookStep(r, OtherEvent, k))
          => UNCHANGED <<txns, users>>]_vars

\* the gateway has sent no charge event yet, and a signed delivery was
\* answered 'processed' with nothing recorded
C29_Witness ==
    /\ configured
    /\ response = Resp("payment_webhook", 200, "processed")
    /\ DOMAIN gw # {}
    /\ \A r \in DOMAIN gw : gw[r].events = {}
    /\ txns = << >>
    /\ \A u \in Users : users[u].subscription_type = "free"

\* the response tells the client that the payment system is unavailable or
\* that the payment failed
ReportsError(resp) ==
    \/ resp.code = 500 /\ resp.body = "Payment system not configured"
    \/ resp = Resp("payment_success", 200, "payment_error")

\* C30: when the gateway client was not constructed (paystack is None),
\* initialize_payment, verify_payment, the webhook route and
\* payment_success create no Transaction, change no status, change no user
\* field, and report an error
C30_UnconfiguredChangesNothing ==
    [][(/\ ~configured
        /\ response'.handler \in {"initialize_payment", "verify_payment",
                                   "payment_success", "paystack_webhook",
                                   "payment_webhook"})
       => /\ UNCHANGED <<txns, users>>
          /\ ReportsError(response')]_vars

\* without a gateway client, the success page was asked about a reference
\* the gateway holds as paid, and the error page was shown
C30_Witness ==
    /\ ~configured
    /\ response = Resp("payment_success", 200, "payment_error")
    /\ \E r \in DOMAIN gw : gw[r].status = "success"
    /\ txns = << >>

====
